---- MODULE Spec2Model ----
(***************************************************************************)
(* The Express/PostgreSQL backend src/backend/server.js as a state machine. *)
(* The shared state is the tables; every request handler is a process      *)
(* whose steps are its `await pool.query(...)` calls, one atomic step each.  *)
(* The JavaScript between two queries touches only the handler's locals and  *)
(* is folded into the query step that precedes it.                          *)
(* The SQLite variants src/unnamed/part_001 and part_003 and the chat page  *)
(* src/src/App.jsx (with src/unnamed/part_004) follow in sections of their  *)
(* own, each with its own specification.                                    *)
(***************************************************************************)
EXTENDS Integers, Sequences, FiniteSets, TLC

\* ------------------------------------------------------------------ bounds
MaxRequests == 2      \* requests accepted in one behaviour of Spec
MaxEsusuRequests == 4 \* requests accepted in one behaviour of SpecEsusu
MaxFailures == 1      \* queries that throw (induced storage failures)
MaxClosedRequests == 3 \* requests accepted in one behaviour of SpecClosed
MaxLiveRequests == 2   \* requests accepted in one behaviour of SpecLive
MaxSqliteRequests == 3 \* requests accepted in one behaviour of SpecSqlite
MaxRollbackRequests == 2 \* requests accepted in one behaviour of SpecRollback
MaxSignupRequests == 4 \* requests accepted in one behaviour of SpecSignup
MaxHistoryRequests == 2 \* requests accepted in one behaviour of SpecHistory
MaxHistoryRows == 22    \* rows of the transactions table SpecHistory starts from

\* ------------------------------------------------------- program constants
DefaultBalance == 10000   \* users.balance INTEGER DEFAULT 10000
HistoryLimit == 20        \* ... ORDER BY date DESC LIMIT 20

\* --------------------------------------------------------------- inputs
Users == {"alice", "bob", "carol", "dave"}     \* rows of the users table
Payers == {"alice", "bob"}                     \* users who spend in this model
NoUser == "nobody"                             \* a username with no row
Null == "null"                                 \* JavaScript null / no regex match
Procs == {"p1", "p2"}                          \* request handlers in flight
TextAmounts == {0, 6000}                       \* parseInt of /(\d+)/, 0 when absent
BillAmounts == {-6000, 6000}                   \* billData.amount
GroupNames == {"Trio"}
Founders == {"alice"}                          \* users who create groups
PerPersonInputs == {-4000, 4000}               \* amountPerPerson
TotalMembersInputs == {0, 2, 3}                \* totalMembers (0 is falsy)
SignupNames == Payers \cup {""}                 \* req.body.username ("" is falsy)
SignupPasswords == {"", "pw1", "pw2"}          \* req.body.password
SqliteAmounts == {0, 6000}                     \* req.body.amount (0 is falsy)
HistoryAmount == 100                           \* the amount of each row SpecHistory starts from

VARIABLES
  balance,              \* users.balance, by username
  password,             \* users.password (the bcrypt hash), by username
  transactions,         \* the transactions table, in insertion order
  esusu_groups,         \* the esusu_groups table; a row's id is its index
  esusu_members,        \* the esusu_members table
  esusu_contributions,  \* the esusu_contributions table
  pc,                   \* per handler: the query it is about to issue
  req,                  \* per handler: the request (req.body) being served
  loc,                  \* per handler: its local constants (user, group, ...)
  response,             \* the latest response sent: its route, status and rows
  budget,               \* requests the server will still accept in this run
  failures,             \* queries that have thrown so far
  browser               \* the chat page: its React state, its Firestore
                        \* documents and its calls in flight

vars == <<balance, password, transactions, esusu_groups, esusu_members,
          esusu_contributions, pc, req, loc, response, budget, failures,
          browser>>

tables == <<balance, password, transactions, esusu_groups, esusu_members,
            esusu_contributions>>

\* ------------------------------------------------------------ helpers
NoReq == [route |-> "none", username |-> NoUser, amount |-> 0,
          recipient |-> Null, groupName |-> Null,
          amountPerPerson |-> 0, totalMembers |-> 0]

NoLoc == [balance |-> 0, recBalance |-> 0, userFound |-> FALSE,
          group |-> 0, position |-> 0]

\* A response: the route it answers, its HTTP status, the message of its JSON
\* body where a claim refers to it ("" elsewhere) and the rows it carries
Response(route, code, message) ==
  [route |-> route, status |-> code, message |-> message, rows |-> <<>>]

NoResponse == Response("none", 0, "")

RECURSIVE SumAmounts(_)
SumAmounts(s) == IF s = <<>> THEN 0 ELSE Head(s).amount + SumAmounts(Tail(s))

\* SELECT * FROM esusu_groups WHERE group_name=$1 -> the ids of the rows
GroupsNamed(name) == {i \in DOMAIN esusu_groups : esusu_groups[i].group_name = name}

\* SELECT * FROM esusu_members WHERE group_id=$1 [AND username=$2]
MembersOf(g) == {i \in DOMAIN esusu_members : esusu_members[i].group_id = g}
MembershipsOf(g, u) == {i \in MembersOf(g) : esusu_members[i].username = u}

\* bcrypt.hashSync(password, 10): a value that is not the plain text
Hashed(plain) == <<"bcrypt", plain>>

TransactionRow(u, t, a, to) == [username |-> u, type |-> t, amount |-> a, to_user |-> to]

\* An INSERT that overwrites the newest row instead of adding one
InsertTransactionOverwriting(row) ==
  transactions' = IF transactions = <<>> THEN <<row>>
                  ELSE [transactions EXCEPT ![Len(transactions)] = row]

\* INSERT INTO transactions(username, type, amount, to_user) VALUES(...)
InsertTransaction(row) == transactions' = Append(transactions, row)

\* res.status(code).json(...): the handler ends and its locals die
Reply(p, r) ==
  /\ pc' = [pc EXCEPT ![p] = "done"]
  /\ response' = r
  /\ loc' = [loc EXCEPT ![p] = NoLoc]
  /\ req' = [req EXCEPT ![p] = NoReq]

Respond(p, route, code) == Reply(p, Response(route, code, ""))

\* A request is accepted by an idle handler.  Handlers are interchangeable, so
\* p2 is used only while p1 is busy.
Accept(p) ==
  /\ pc[p] = "done"
  /\ budget > 0
  /\ p = "p2" => pc["p1"] # "done"
  /\ budget' = budget - 1
  /\ UNCHANGED browser

Goto(p, r, label, l) ==
  /\ pc' = [pc EXCEPT ![p] = label]
  /\ req' = [req EXCEPT ![p] = r]
  /\ loc' = [loc EXCEPT ![p] = l]
  /\ UNCHANGED response

\* ------------------------------------------------------ the chat page
\* src/src/App.jsx keeps money as JavaScript numbers with fractions; the model
\* counts thousandths of a naira, so that toFixed(2) has something to round.
Naira == 1000
InitialBalance == 100000 * Naira     \* const initialBalance = 100000.0
Calls == {"c1", "c2"}                \* async calls of the page in flight

\* What fetchWithRetry has handed to its caller: nothing yet, a value, an error
NoResult == [kind |-> "none", value |-> <<"", 0>>]

\* One async call: where it stands, the state its closure captured (isLoading,
\* balance), the loop variable i of fetchWithRetry, the fetch outcomes and the
\* delays it has seen so far, and the balance it is about to store.
NoCall == [pc |-> "idle", isLoading |-> FALSE, balance |-> 0, i |-> 0,
           log |-> <<>>, waited |-> <<>>, result |-> NoResult,
           newBalance |-> 0]

\* No SpeechRecognition object is alive
NoRecognition == [phase |-> "none", isLoading |-> FALSE, balance |-> 0]

\* The page after sign-in and the first balance snapshot: the React state
\* (isLoading, isListening, balance), the Firestore documents
\* financial_data/balance_doc (currentBalance, src/src/App.jsx) and
\* financial/account (account, src/unnamed/part_004), the live recognition,
\* the calls in flight and the number of messages sent so far.
InitialPage ==
  [isLoading |-> FALSE, isListening |-> FALSE, balance |-> InitialBalance,
   currentBalance |-> InitialBalance, account |-> InitialBalance,
   recognition |-> NoRecognition, calls |-> [c \in Calls |-> NoCall],
   sends |-> 0]

\* The store after createTables() and the signup of every user of Users (each
\* row takes the DEFAULT balance); no request is in flight.
InitTables ==
  /\ balance = [u \in Users |-> DefaultBalance]
  /\ password = [u \in Users |-> Hashed("pw1")]
  /\ transactions = <<>>
  /\ esusu_groups = <<>>
  /\ esusu_members = <<>>
  /\ esusu_contributions = <<>>
  /\ pc = [p \in Procs |-> "done"]
  /\ req = [p \in Procs |-> NoReq]
  /\ loc = [p \in Procs |-> NoLoc]
  /\ response = NoResponse
  /\ failures = 0
  /\ browser = InitialPage

Init ==
  /\ InitTables
  /\ budget = MaxRequests

InitEsusu ==
  /\ InitTables
  /\ budget = MaxEsusuRequests

InitClosed ==
  /\ InitTables
  /\ budget = MaxClosedRequests

\* ------------------------------------------------------- POST /signup
\* The signup with the UNIQUE constraint on username left out
UsernameTakenUnchecked(username) == FALSE

\* username TEXT UNIQUE NOT NULL: the INSERT of a taken name throws
UsernameTaken(username) == username \in DOMAIN balance

RequiredError == "Username and password required"
UsernameExistsError == "Username already exists"

\* INSERT INTO users(username, password): the row takes the DEFAULT balance
InsertUser(username, hashed) ==
  /\ balance' = [u \in DOMAIN balance \cup {username} |->
                   IF u = username THEN DefaultBalance ELSE balance[u]]
  /\ password' = [u \in DOMAIN password \cup {username} |->
                   IF u = username THEN hashed ELSE password[u]]

\* The whole handler: the required-fields check, hashSync, the INSERT and the
\* catch that answers 400 when it throws
SignupOf(p, username, plain) ==
  /\ Accept(p)
  /\ UNCHANGED <<transactions, esusu_groups, esusu_members,
                 esusu_contributions, failures>>
  /\ IF username = "" \/ plain = ""
     THEN /\ Reply(p, Response("signup", 400, RequiredError))
          /\ UNCHANGED <<balance, password>>
     ELSE IF UsernameTaken(username)
     THEN /\ Reply(p, Response("signup", 400, UsernameExistsError))
          /\ UNCHANGED <<balance, password>>
     ELSE /\ InsertUser(username, Hashed(plain))
          /\ Respond(p, "signup", 200)

Signup(p) ==
  \E username \in SignupNames, plain \in SignupPasswords : SignupOf(p, username, plain)

\* The store after createTables(): no account yet
InitSignup ==
  /\ balance = [u \in {} |-> DefaultBalance]
  /\ password = [u \in {} |-> Hashed("")]
  /\ transactions = <<>>
  /\ esusu_groups = <<>>
  /\ esusu_members = <<>>
  /\ esusu_contributions = <<>>
  /\ pc = [p \in Procs |-> "done"]
  /\ req = [p \in Procs |-> NoReq]
  /\ loc = [p \in Procs |-> NoLoc]
  /\ response = NoResponse
  /\ failures = 0
  /\ browser = InitialPage
  /\ budget = MaxSignupRequests

\* ------------------------------------------------------- POST /action
\* The debit paths with the funds guard left out
InsufficientFundsUnchecked(userBalance, amount) == FALSE

\* `user.balance < amount`: the insufficient-funds guard of every debit path
InsufficientFunds(userBalance, amount) == userBalance < amount

\* `!amount || amount <= 0`
InvalidAmount(amount) == amount = 0 \/ amount <= 0

\* `const newBal = user.balance - amount` (likewise newSenderBal, newBalance)
NewBalance(userBalance, amount) == userBalance - amount

\* `const newRecipientBal = recUser.balance + amount`
NewRecipientBal(recBalance, amount) == recBalance + amount

\* UPDATE users SET balance=$1 WHERE username=$2 (no row: nothing changes)
UpdateBalance(u, b) ==
  balance' = IF u \in DOMAIN balance THEN [balance EXCEPT ![u] = b] ELSE balance

\* The handler up to and including its first query, SELECT * FROM users, and the
\* intent checks that follow it.  The regex intent match is an input: the text
\* asks for airtime or for a transfer, with the amount and recipient it parses to.
Action(p) ==
  \E u \in Payers \cup {NoUser}, intent \in {"airtime", "transfer"},
     amount \in TextAmounts, recipient \in Payers \cup {NoUser, Null} :
    /\ intent = "airtime" => recipient = Null
    /\ Accept(p)
    /\ UNCHANGED <<tables, failures>>
    /\ IF u \notin DOMAIN balance THEN Respond(p, intent, 400)
       ELSE IF intent = "transfer" /\ recipient = Null THEN Respond(p, intent, 400)
       ELSE IF InvalidAmount(amount) THEN Respond(p, intent, 400)
       ELSE IF InsufficientFunds(balance[u], amount) THEN Respond(p, intent, 400)
       ELSE Goto(p, [NoReq EXCEPT !.route = intent, !.username = u,
                                  !.amount = amount, !.recipient = recipient],
                 IF intent = "airtime" THEN "airtime_update"
                 ELSE "transfer_select_recipient",
                 [NoLoc EXCEPT !.balance = balance[u], !.userFound = TRUE])

AirtimeUpdate(p) ==
  /\ pc[p] = "airtime_update"
  /\ UpdateBalance(req[p].username, NewBalance(loc[p].balance, req[p].amount))
  /\ Goto(p, req[p], "airtime_insert", loc[p])
  /\ UNCHANGED <<password, transactions, esusu_groups, esusu_members,
                 esusu_contributions, budget, browser, failures>>

AirtimeInsert(p) ==
  /\ pc[p] = "airtime_insert"
  /\ InsertTransaction(
        TransactionRow(req[p].username, "Airtime", req[p].amount, "Self"))
  /\ Respond(p, req[p].route, 200)
  /\ UNCHANGED <<password, balance, esusu_groups, esusu_members,
                 esusu_contributions, budget, browser, failures>>

TransferSelectRecipient(p) ==
  /\ pc[p] = "transfer_select_recipient"
  /\ UNCHANGED <<tables, budget, browser, failures>>
  /\ IF req[p].recipient \notin DOMAIN balance THEN Respond(p, req[p].route, 400)
     ELSE Goto(p, req[p], "transfer_update_sender",
               [loc[p] EXCEPT !.recBalance = balance[req[p].recipient]])

TransferUpdateSender(p) ==
  /\ pc[p] = "transfer_update_sender"
  /\ UpdateBalance(req[p].username, NewBalance(loc[p].balance, req[p].amount))
  /\ Goto(p, req[p], "transfer_update_recipient", loc[p])
  /\ UNCHANGED <<password, transactions, esusu_groups, esusu_members,
                 esusu_contributions, budget, browser, failures>>

TransferUpdateRecipient(p) ==
  /\ pc[p] = "transfer_update_recipient"
  /\ UpdateBalance(req[p].recipient, NewRecipientBal(loc[p].recBalance, req[p].amount))
  /\ Goto(p, req[p], "transfer_insert_sent", loc[p])
  /\ UNCHANGED <<password, transactions, esusu_groups, esusu_members,
                 esusu_contributions, budget, browser, failures>>

TransferInsertSent(p) ==
  /\ pc[p] = "transfer_insert_sent"
  /\ InsertTransaction(
        TransactionRow(req[p].username, "Transfer", req[p].amount, req[p].recipient))
  /\ Goto(p, req[p], "transfer_insert_received", loc[p])
  /\ UNCHANGED <<password, balance, esusu_groups, esusu_members,
                 esusu_contributions, budget, browser, failures>>

TransferInsertReceived(p) ==
  /\ pc[p] = "transfer_insert_received"
  /\ InsertTransaction(
        TransactionRow(req[p].recipient, "Received", req[p].amount, req[p].username))
  /\ Respond(p, req[p].route, 200)
  /\ UNCHANGED <<password, balance, esusu_groups, esusu_members,
                 esusu_contributions, budget, browser, failures>>

\* ------------------------------------------------------- POST /pay-bill
PayBill(p) ==
  \E u \in Payers \cup {NoUser}, amount \in BillAmounts :
    /\ Accept(p)
    /\ UNCHANGED <<tables, failures>>
    /\ IF u \notin DOMAIN balance THEN Respond(p, "pay-bill", 400)
       ELSE IF InsufficientFunds(balance[u], amount) THEN Respond(p, "pay-bill", 400)
       ELSE Goto(p, [NoReq EXCEPT !.route = "pay-bill", !.username = u, !.amount = amount],
                 "paybill_update",
                 [NoLoc EXCEPT !.balance = balance[u], !.userFound = TRUE])

PayBillUpdate(p) ==
  /\ pc[p] = "paybill_update"
  /\ UpdateBalance(req[p].username, NewBalance(loc[p].balance, req[p].amount))
  /\ Goto(p, req[p], "paybill_insert", loc[p])
  /\ UNCHANGED <<password, transactions, esusu_groups, esusu_members,
                 esusu_contributions, budget, browser, failures>>

PayBillInsert(p) ==
  /\ pc[p] = "paybill_insert"
  /\ InsertTransaction(
        TransactionRow(req[p].username, "Bill Payment", req[p].amount, "provider"))
  /\ Respond(p, req[p].route, 200)
  /\ UNCHANGED <<password, balance, esusu_groups, esusu_members,
                 esusu_contributions, budget, browser, failures>>

\* ------------------------------------------------------- POST /esusu/create
\* `!username || !groupName || !amountPerPerson || !frequency || !totalMembers`
\* (username, groupName and frequency are always given here)
MissingField(amountPerPerson, totalMembers) == amountPerPerson = 0 \/ totalMembers = 0

GroupRow(name, amountPerPerson, totalMembers, u) ==
  [group_name |-> name, amount_per_person |-> amountPerPerson,
   total_members |-> totalMembers, created_by |-> u, status |-> "active"]

MemberRow(g, u, position) ==
  [group_id |-> g, username |-> u, position |-> position, has_collected |-> 0]

ContributionRow(g, u, amount, cycle) ==
  [group_id |-> g, username |-> u, amount |-> amount, cycle_number |-> cycle]

\* The name check with the UNIQUE constraint left out
NameTakenUnchecked(name) == FALSE

\* group_name TEXT UNIQUE NOT NULL: the INSERT of a second row of the
\* same name throws
NameTaken(name) == GroupsNamed(name) # {}

\* The handler through INSERT INTO esusu_groups ... RETURNING id; a taken name
\* throws and the catch answers 400.
EsusuCreate(p) ==
  \E u \in Founders, name \in GroupNames,
     amountPerPerson \in PerPersonInputs, totalMembers \in TotalMembersInputs :
    /\ Accept(p)
    /\ UNCHANGED <<password, balance, transactions, esusu_members,
                   esusu_contributions, failures>>
    /\ IF MissingField(amountPerPerson, totalMembers) \/ NameTaken(name)
       THEN /\ Respond(p, "create", 400)
            /\ UNCHANGED esusu_groups
       ELSE /\ esusu_groups' = Append(esusu_groups,
                                GroupRow(name, amountPerPerson, totalMembers, u))
            /\ Goto(p, [NoReq EXCEPT !.route = "create", !.username = u,
                                     !.groupName = name,
                                     !.amountPerPerson = amountPerPerson,
                                     !.totalMembers = totalMembers],
                    "create_insert_member",
                    [NoLoc EXCEPT !.group = Len(esusu_groups) + 1])

EsusuCreateInsertMember(p) ==
  /\ pc[p] = "create_insert_member"
  /\ esusu_members' = Append(esusu_members, MemberRow(loc[p].group, req[p].username, 1))
  /\ Respond(p, req[p].route, 200)
  /\ UNCHANGED <<password, balance, transactions, esusu_groups, esusu_contributions,
                 budget, browser, failures>>

\* ------------------------------------------------------- POST /esusu/join
\* The handler through SELECT * FROM esusu_groups WHERE group_name=$1
EsusuJoin(p) ==
  \E u \in Users, name \in GroupNames :
    /\ Accept(p)
    /\ UNCHANGED <<tables, failures>>
    /\ IF GroupsNamed(name) = {} THEN Respond(p, "join", 400)
       ELSE Goto(p, [NoReq EXCEPT !.route = "join", !.username = u, !.groupName = name],
                 "join_select_existing",
                 [NoLoc EXCEPT !.group = CHOOSE g \in GroupsNamed(name) : TRUE])

\* `existingResult.rows.length > 0`
AlreadyMember(g, u) == MembershipsOf(g, u) # {}

\* `membersResult.rows.length >= group.total_members`
GroupFull(count, totalMembers) == count >= totalMembers

\* `const position = membersResult.rows.length + 1`
NextPosition(count) == count + 1

EsusuJoinSelectExisting(p) ==
  /\ pc[p] = "join_select_existing"
  /\ UNCHANGED <<tables, budget, browser, failures>>
  /\ IF AlreadyMember(loc[p].group, req[p].username) THEN Respond(p, req[p].route, 400)
     ELSE Goto(p, req[p], "join_select_members", loc[p])

EsusuJoinSelectMembers(p) ==
  /\ pc[p] = "join_select_members"
  /\ UNCHANGED <<tables, budget, browser, failures>>
  /\ LET count == Cardinality(MembersOf(loc[p].group)) IN
     IF GroupFull(count, esusu_groups[loc[p].group].total_members) THEN Respond(p, req[p].route, 400)
     ELSE Goto(p, req[p], "join_insert", [loc[p] EXCEPT !.position = NextPosition(count)])

\* A join that also rewrites the group's size to the position it hands out
EsusuJoinInsertResizing(p) ==
  /\ pc[p] = "join_insert"
  /\ esusu_members' = Append(esusu_members,
        MemberRow(loc[p].group, req[p].username, loc[p].position))
  /\ esusu_groups' = [esusu_groups EXCEPT ![loc[p].group].total_members = loc[p].position]
  /\ Respond(p, req[p].route, 200)
  /\ UNCHANGED <<password, balance, transactions, esusu_contributions,
                 budget, browser, failures>>

\* INSERT INTO esusu_members(group_id, username, position), then res.json
EsusuJoinInsert(p) ==
  /\ pc[p] = "join_insert"
  /\ esusu_members' = Append(esusu_members,
        MemberRow(loc[p].group, req[p].username, loc[p].position))
  /\ Respond(p, req[p].route, 200)
  /\ UNCHANGED <<password, balance, transactions, esusu_groups, esusu_contributions,
                 budget, browser, failures>>

\* ------------------------------------------------------- POST /esusu/contribute
\* The handler through SELECT * FROM users WHERE username=$1
EsusuContribute(p) ==
  \E u \in Payers \cup {NoUser}, name \in GroupNames :
    /\ Accept(p)
    /\ UNCHANGED <<tables, failures>>
    /\ Goto(p, [NoReq EXCEPT !.route = "contribute", !.username = u, !.groupName = name],
            "contribute_select_group",
            IF u \in DOMAIN balance
            THEN [NoLoc EXCEPT !.balance = balance[u], !.userFound = TRUE]
            ELSE NoLoc)

\* SELECT * FROM esusu_groups, then `userResult.rows.length === 0 || groupResult.rows.length === 0`
EsusuContributeSelectGroup(p) ==
  /\ pc[p] = "contribute_select_group"
  /\ UNCHANGED <<tables, budget, browser, failures>>
  /\ IF ~loc[p].userFound \/ GroupsNamed(req[p].groupName) = {} THEN Respond(p, req[p].route, 400)
     ELSE Goto(p, req[p], "contribute_select_member",
               [loc[p] EXCEPT !.group = CHOOSE g \in GroupsNamed(req[p].groupName) : TRUE])

\* The contribute handler with the membership check left out
NotAMemberUnchecked(g, u) == FALSE

\* `memberResult.rows.length === 0`
NotAMember(g, u) == MembershipsOf(g, u) = {}

NotMemberError == "You're not a member of this group!"
\* `You need N but only have M.`, the amounts left out
InsufficientBalanceError == "You need ... but only have ..."

\* SELECT * FROM esusu_members, then the membership and balance checks
EsusuContributeSelectMember(p) ==
  /\ pc[p] = "contribute_select_member"
  /\ UNCHANGED <<tables, budget, browser, failures>>
  /\ IF NotAMember(loc[p].group, req[p].username)
     THEN Reply(p, Response("contribute", 400, NotMemberError))
     ELSE IF InsufficientFunds(loc[p].balance, esusu_groups[loc[p].group].amount_per_person)
     THEN Reply(p, Response("contribute", 400, InsufficientBalanceError))
     ELSE Goto(p, req[p], "contribute_update", loc[p])

\* The balance UPDATE held back while any other request is in flight
EsusuContributeUpdateWaiting(p) ==
  /\ pc[p] = "contribute_update"
  /\ \A q \in Procs \ {p} : pc[q] = "done"
  /\ UpdateBalance(req[p].username,
        NewBalance(loc[p].balance, esusu_groups[loc[p].group].amount_per_person))
  /\ Goto(p, req[p], "contribute_insert_contribution", loc[p])
  /\ UNCHANGED <<password, transactions, esusu_groups, esusu_members,
                 esusu_contributions, budget, browser, failures>>

\* UPDATE users SET balance=$1 WHERE username=$2
EsusuContributeUpdate(p) ==
  /\ pc[p] = "contribute_update"
  /\ UpdateBalance(req[p].username,
        NewBalance(loc[p].balance, esusu_groups[loc[p].group].amount_per_person))
  /\ Goto(p, req[p], "contribute_insert_contribution", loc[p])
  /\ UNCHANGED <<password, transactions, esusu_groups, esusu_members,
                 esusu_contributions, budget, browser, failures>>

EsusuContributeInsertContribution(p) ==
  /\ pc[p] = "contribute_insert_contribution"
  /\ esusu_contributions' = Append(esusu_contributions,
        ContributionRow(loc[p].group, req[p].username,
                        esusu_groups[loc[p].group].amount_per_person, 1))
  /\ Goto(p, req[p], "contribute_insert_transaction", loc[p])
  /\ UNCHANGED <<password, balance, transactions, esusu_groups, esusu_members,
                 budget, browser, failures>>

EsusuContributeInsertTransaction(p) ==
  /\ pc[p] = "contribute_insert_transaction"
  /\ InsertTransaction(
        TransactionRow(req[p].username, "Esusu Contribution",
                       esusu_groups[loc[p].group].amount_per_person, req[p].groupName))
  /\ Respond(p, req[p].route, 200)
  /\ UNCHANGED <<password, balance, esusu_groups, esusu_members,
                 esusu_contributions, budget, browser, failures>>

\* ------------------------------------------------------- storage failure
\* The status each handler's catch block answers with
CatchStatus(route) == IF route \in {"create", "signup"} THEN 400 ELSE 500

\* ... and the message it carries
CatchMessage(route) == IF route = "signup" THEN UsernameExistsError ELSE ""

\* What a catch block does to the tables before it answers: nothing
CatchRestores(p) == UNCHANGED tables

\* The pending query of handler p throws: control passes to the catch block.
QueryFails(p) ==
  /\ pc[p] \notin {"done", "advice_fetch"}
  /\ failures < MaxFailures
  /\ failures' = failures + 1
  /\ CatchRestores(p)
  /\ Reply(p, Response(req[p].route, CatchStatus(req[p].route),
                       CatchMessage(req[p].route)))
  /\ UNCHANGED <<budget, browser>>

\* The first query of a handler throws: nothing was written, the catch answers.
FirstQueryFails(p, route) ==
  /\ Accept(p)
  /\ failures < MaxFailures
  /\ failures' = failures + 1
  /\ Reply(p, Response(route, CatchStatus(route), CatchMessage(route)))
  /\ UNCHANGED tables

EsusuRoutes == {"create", "join", "contribute"}
Routes == {"airtime", "transfer", "pay-bill"} \cup EsusuRoutes

\* ------------------------------------------------------- specification
NextEsusu ==
  \E p \in Procs :
    \/ EsusuCreate(p)
    \/ EsusuCreateInsertMember(p)
    \/ EsusuJoin(p)
    \/ EsusuJoinSelectExisting(p)
    \/ EsusuJoinSelectMembers(p)
    \/ EsusuJoinInsert(p)
    \/ EsusuContribute(p)
    \/ EsusuContributeSelectGroup(p)
    \/ EsusuContributeSelectMember(p)
    \/ EsusuContributeUpdate(p)
    \/ EsusuContributeInsertContribution(p)
    \/ EsusuContributeInsertTransaction(p)
    \/ QueryFails(p)
    \/ \E route \in EsusuRoutes : FirstQueryFails(p, route)

Next ==
  \E p \in Procs :
    \/ Action(p)
    \/ AirtimeUpdate(p)
    \/ AirtimeInsert(p)
    \/ TransferSelectRecipient(p)
    \/ TransferUpdateSender(p)
    \/ TransferUpdateRecipient(p)
    \/ TransferInsertSent(p)
    \/ TransferInsertReceived(p)
    \/ PayBill(p)
    \/ PayBillUpdate(p)
    \/ PayBillInsert(p)
    \/ EsusuCreate(p)
    \/ EsusuCreateInsertMember(p)
    \/ EsusuJoin(p)
    \/ EsusuJoinSelectExisting(p)
    \/ EsusuJoinSelectMembers(p)
    \/ EsusuJoinInsert(p)
    \/ EsusuContribute(p)
    \/ EsusuContributeSelectGroup(p)
    \/ EsusuContributeSelectMember(p)
    \/ EsusuContributeUpdate(p)
    \/ EsusuContributeInsertContribution(p)
    \/ EsusuContributeInsertTransaction(p)
    \/ QueryFails(p)
    \/ \E route \in Routes : FirstQueryFails(p, route)

Spec == Init /\ [][Next]_vars

\* ------------------------------------------------------- GET /history/:username
\* The rows are kept in insertion order and `date` defaults to the time of the
\* INSERT, so the newest row is the last one.
OrderByDateAsc(s) == s

\* ORDER BY date DESC
OrderByDateDesc(s) == [k \in 1..Len(s) |-> s[Len(s) + 1 - k]]

\* LIMIT n
Limit(s, n) == SubSeq(s, 1, IF Len(s) < n THEN Len(s) ELSE n)

\* SELECT * FROM transactions WHERE username=$1 ORDER BY date DESC LIMIT 20; a
\* returned row is given by its id, which is its index in the table.
History(u) ==
  LET ids == [i \in 1..Len(transactions) |-> i]
      Mine(i) == transactions[i].username = u
  IN  Limit(OrderByDateDesc(SelectSeq(ids, Mine)), HistoryLimit)

\* The whole handler for :username = u: one query, then res.json
GetHistoryOf(p, u) ==
  /\ Accept(p)
  /\ UNCHANGED <<tables, failures>>
  /\ Reply(p, [Response("history", 200, "") EXCEPT !.rows = History(u)])

GetHistory(p) == \E u \in Payers \cup {NoUser} : GetHistoryOf(p, u)

\* A table of n airtime rows of alice, of which the rows i and j (if not 0)
\* are bob's instead; every balance is the default less the amounts logged.
InitHistory ==
  \E n \in 0..MaxHistoryRows : \E i, j \in 0..n :
    /\ i <= j
    /\ transactions = [k \in 1..n |->
          TransactionRow(IF k \in {i, j} THEN "bob" ELSE "alice",
                         "Airtime", HistoryAmount, "Self")]
    /\ balance = [u \in Users |->
          DefaultBalance - HistoryAmount *
            (IF u = "bob" THEN Cardinality({i, j} \ {0})
             ELSE IF u = "alice" THEN n - Cardinality({i, j} \ {0}) ELSE 0)]
    /\ password = [u \in Users |-> Hashed("pw1")]
    /\ esusu_groups = <<>>
    /\ esusu_members = <<>>
    /\ esusu_contributions = <<>>
    /\ pc = [p \in Procs |-> "done"]
    /\ req = [p \in Procs |-> NoReq]
    /\ loc = [p \in Procs |-> NoLoc]
    /\ response = NoResponse
    /\ failures = 0
    /\ browser = InitialPage
    /\ budget = MaxHistoryRequests

NextHistory ==
  \E p \in Procs :
    \/ GetHistory(p)
    \/ FirstQueryFails(p, "history")

SpecHistory == InitHistory /\ [][NextHistory]_vars

\* ------------------------------------------------------- POST /action, read-only
\* The intents of POST /action that write nothing: the balance check and the
\* default answer reply after the first query; financial advice reads the last
\* transactions and then awaits getGeminiAdvice.
ActionReadOnly(p) ==
  \E u \in Payers \cup {NoUser}, intent \in {"balance", "advice", "default"} :
    /\ Accept(p)
    /\ UNCHANGED <<tables, failures>>
    /\ IF u \notin DOMAIN balance THEN Respond(p, intent, 400)
       ELSE IF intent = "advice"
       THEN Goto(p, [NoReq EXCEPT !.route = "advice", !.username = u],
                 "advice_select_history",
                 [NoLoc EXCEPT !.balance = balance[u], !.userFound = TRUE])
       ELSE Respond(p, intent, 200)

\* SELECT type, amount FROM transactions ... LIMIT 5
AdviceSelectHistory(p) ==
  /\ pc[p] = "advice_select_history"
  /\ UNCHANGED <<tables, budget, browser, failures>>
  /\ Goto(p, req[p], "advice_fetch", loc[p])

\* await getGeminiAdvice(...): the fetch returns or throws (the runtime's fetch
\* times out), getGeminiAdvice catches and returns a text either way, res.json
AdviceFetch(p) ==
  /\ pc[p] = "advice_fetch"
  /\ UNCHANGED <<tables, budget, browser, failures>>
  /\ Respond(p, "advice", 200)

\* The pending query (or fetch) of handler p returns and the handler runs on
Proceed(p) ==
  \/ AirtimeUpdate(p) \/ AirtimeInsert(p)
  \/ TransferSelectRecipient(p) \/ TransferUpdateSender(p)
  \/ TransferUpdateRecipient(p) \/ TransferInsertSent(p)
  \/ TransferInsertReceived(p)
  \/ PayBillUpdate(p) \/ PayBillInsert(p)
  \/ EsusuJoinSelectExisting(p) \/ EsusuJoinSelectMembers(p) \/ EsusuJoinInsert(p)
  \/ EsusuContributeSelectGroup(p) \/ EsusuContributeSelectMember(p)
  \/ EsusuContributeUpdate(p) \/ EsusuContributeInsertContribution(p)
  \/ EsusuContributeInsertTransaction(p)
  \/ AdviceSelectHistory(p) \/ AdviceFetch(p)

\* ... or throws
Continue(p) == Proceed(p) \/ QueryFails(p)

\* The store after alice has created the group Trio (4000 per person, 3
\* members); no request is in flight.
InitLive ==
  /\ balance = [u \in Users |-> DefaultBalance]
  /\ password = [u \in Users |-> Hashed("pw1")]
  /\ transactions = <<>>
  /\ esusu_groups = <<GroupRow("Trio", 4000, 3, "alice")>>
  /\ esusu_members = <<MemberRow(1, "alice", 1)>>
  /\ esusu_contributions = <<>>
  /\ pc = [p \in Procs |-> "done"]
  /\ req = [p \in Procs |-> NoReq]
  /\ loc = [p \in Procs |-> NoLoc]
  /\ response = NoResponse
  /\ failures = 0
  /\ browser = InitialPage
  /\ budget = MaxLiveRequests

\* The join, contribute, pay-bill and action handlers
NextLive ==
  \E p \in Procs :
    \/ Action(p)
    \/ ActionReadOnly(p)
    \/ PayBill(p)
    \/ EsusuJoin(p)
    \/ EsusuContribute(p)
    \/ Proceed(p)
    \/ QueryFails(p)
    \/ \E route \in Routes \ {"create"} : FirstQueryFails(p, route)

\* Every pending query eventually returns or throws
SpecLive ==
  InitLive /\ [][NextLive]_vars /\ \A p \in Procs : WF_vars(Continue(p))

\* ------------------------------------------------------- src/unnamed/part_003
\* The SQLite variant.  db.get runs its callback with the row; the callback
\* queues its UPDATEs with db.run (no callback, no db.serialize) and answers at
\* once, so the UPDATEs execute after the response, each as a step of its own
\* and in either order.  `balance` is the users table of this variant.

\* UPDATE users SET balance = balance + ? WHERE username = ? (no row: no change)
UpdateRelative(u, delta) ==
  balance' = IF u \in DOMAIN balance THEN [balance EXCEPT ![u] = @ + delta]
             ELSE balance

\* POST /transfer through the db.get callback
SqliteTransfer(p) ==
  \E from \in Payers \cup {NoUser}, to \in Payers \cup {NoUser}, amount \in SqliteAmounts :
    /\ Accept(p)
    /\ UNCHANGED <<tables, failures>>
    /\ IF amount = 0 THEN Respond(p, "transfer", 400)
       ELSE IF from \notin DOMAIN balance THEN Respond(p, "transfer", 400)
       ELSE IF InsufficientFunds(balance[from], amount) THEN Respond(p, "transfer", 400)
       ELSE /\ pc' = [pc EXCEPT ![p] = "sqlite_debit_credit"]
            /\ req' = [req EXCEPT ![p] = [NoReq EXCEPT !.route = "transfer",
                          !.username = from, !.recipient = to, !.amount = amount]]
            /\ loc' = [loc EXCEPT ![p] = NoLoc]
            /\ response' = Response("transfer", 200, "")

\* A queued statement of handler p has run; `rest` is what is still queued
SqliteRan(p, rest) ==
  /\ pc' = [pc EXCEPT ![p] = rest]
  /\ req' = [req EXCEPT ![p] = IF rest = "done" THEN NoReq ELSE req[p]]
  /\ UNCHANGED <<password, transactions, esusu_groups, esusu_members,
                 esusu_contributions, loc, response, budget, browser, failures>>

\* UPDATE users SET balance = balance - ? WHERE username = from
SqliteDebit(p) ==
  /\ pc[p] \in {"sqlite_debit_credit", "sqlite_debit"}
  /\ UpdateRelative(req[p].username, 0 - req[p].amount)
  /\ SqliteRan(p, IF pc[p] = "sqlite_debit" THEN "done" ELSE "sqlite_credit")

\* UPDATE users SET balance = balance + ? WHERE username = to
SqliteCredit(p) ==
  /\ pc[p] \in {"sqlite_debit_credit", "sqlite_credit"}
  /\ UpdateRelative(req[p].recipient, req[p].amount)
  /\ SqliteRan(p, IF pc[p] = "sqlite_credit" THEN "done" ELSE "sqlite_debit")

\* POST /buy_airtime through the db.get callback
SqliteBuyAirtime(p) ==
  \E u \in Payers \cup {NoUser}, amount \in SqliteAmounts :
    /\ Accept(p)
    /\ UNCHANGED <<tables, failures>>
    /\ IF amount = 0 THEN Respond(p, "buy_airtime", 400)
       ELSE IF u \notin DOMAIN balance THEN Respond(p, "buy_airtime", 400)
       ELSE IF InsufficientFunds(balance[u], amount) THEN Respond(p, "buy_airtime", 400)
       ELSE /\ pc' = [pc EXCEPT ![p] = "sqlite_debit"]
            /\ req' = [req EXCEPT ![p] = [NoReq EXCEPT !.route = "buy_airtime",
                          !.username = u, !.amount = amount]]
            /\ loc' = [loc EXCEPT ![p] = NoLoc]
            /\ response' = Response("buy_airtime", 200, "")

InitSqlite ==
  /\ InitTables
  /\ budget = MaxSqliteRequests

NextSqlite ==
  \E p \in Procs :
    \/ SqliteTransfer(p)
    \/ SqliteBuyAirtime(p)
    \/ SqliteDebit(p)
    \/ SqliteCredit(p)

SpecSqlite == InitSqlite /\ [][NextSqlite]_vars

\* ------------------------------------------------------- src/unnamed/part_001
\* The SQLite variant of POST /action.  Every statement is a db.get/db.run whose
\* callback carries the handler on; a db.run without a callback is queued and
\* runs after the response.  `balance` and `transactions` are its tables.

\* res.json(...) while statements of the handler are still queued
Answer(p, r, label) ==
  /\ pc' = [pc EXCEPT ![p] = label]
  /\ response' = r
  /\ UNCHANGED <<req, loc>>

\* A queued statement of handler p has run; `rest` is what is still queued
RbRan(p, rest) ==
  /\ pc' = [pc EXCEPT ![p] = rest]
  /\ req' = [req EXCEPT ![p] = IF rest = "done" THEN NoReq ELSE req[p]]
  /\ loc' = [loc EXCEPT ![p] = IF rest = "done" THEN NoLoc ELSE loc[p]]
  /\ UNCHANGED <<response, budget, browser, failures>>

\* The handler through db.get(SELECT * FROM users) and the intent checks
RbAction(p) ==
  \E u \in Payers \cup {NoUser}, intent \in {"airtime", "transfer"},
     amount \in TextAmounts, recipient \in Payers \cup {NoUser, Null} :
    /\ intent = "airtime" => recipient = Null
    /\ Accept(p)
    /\ UNCHANGED <<tables, failures>>
    /\ IF u \notin DOMAIN balance THEN Respond(p, intent, 400)
       ELSE IF intent = "transfer" /\ recipient = Null THEN Respond(p, intent, 400)
       ELSE IF InvalidAmount(amount) THEN Respond(p, intent, 400)
       ELSE IF InsufficientFunds(balance[u], amount) THEN Respond(p, intent, 400)
       ELSE Goto(p, [NoReq EXCEPT !.route = intent, !.username = u,
                                  !.amount = amount, !.recipient = recipient],
                 IF intent = "airtime" THEN "rb_airtime_update"
                 ELSE "rb_select_recipient",
                 [NoLoc EXCEPT !.balance = balance[u], !.userFound = TRUE])

\* UPDATE users SET balance=newBal; its callback queues the INSERT and answers
RbAirtimeUpdate(p) ==
  /\ pc[p] = "rb_airtime_update"
  /\ UpdateBalance(req[p].username, NewBalance(loc[p].balance, req[p].amount))
  /\ Answer(p, Response("airtime", 200, ""), "rb_airtime_insert")
  /\ UNCHANGED <<password, transactions, esusu_groups, esusu_members,
                 esusu_contributions, budget, browser, failures>>

RbAirtimeInsert(p) ==
  /\ pc[p] = "rb_airtime_insert"
  /\ InsertTransaction(
        TransactionRow(req[p].username, "Airtime", req[p].amount, "Self"))
  /\ RbRan(p, "done")
  /\ UNCHANGED <<password, balance, esusu_groups, esusu_members, esusu_contributions>>

\* db.get(SELECT * FROM users WHERE username=recipient)
RbSelectRecipient(p) ==
  /\ pc[p] = "rb_select_recipient"
  /\ UNCHANGED <<tables, budget, browser, failures>>
  /\ IF req[p].recipient \notin DOMAIN balance THEN Respond(p, "transfer", 400)
     ELSE Goto(p, req[p], "rb_update_sender",
               [loc[p] EXCEPT !.recBalance = balance[req[p].recipient]])

\* UPDATE users SET balance=newSenderBal WHERE username=username
RbUpdateSender(p) ==
  /\ pc[p] = "rb_update_sender"
  /\ UpdateBalance(req[p].username, NewBalance(loc[p].balance, req[p].amount))
  /\ Goto(p, req[p], "rb_update_recipient", loc[p])
  /\ UNCHANGED <<password, transactions, esusu_groups, esusu_members,
                 esusu_contributions, budget, browser, failures>>

\* ... with updateErr1: 500, nothing written
RbUpdateSenderFails(p) ==
  /\ pc[p] = "rb_update_sender"
  /\ failures < MaxFailures
  /\ failures' = failures + 1
  /\ Respond(p, "transfer", 500)
  /\ UNCHANGED <<tables, budget, browser>>

\* UPDATE users SET balance=newRecipientBal WHERE username=recipient; its
\* callback queues the two INSERTs and answers
RbUpdateRecipient(p) ==
  /\ pc[p] = "rb_update_recipient"
  /\ UpdateBalance(req[p].recipient, NewRecipientBal(loc[p].recBalance, req[p].amount))
  /\ Answer(p, Response("transfer", 200, ""), "rb_insert_sent")
  /\ UNCHANGED <<password, transactions, esusu_groups, esusu_members,
                 esusu_contributions, budget, browser, failures>>

\* ... with updateErr2: the callback queues the rollback and answers 500
RbUpdateRecipientFails(p) ==
  /\ pc[p] = "rb_update_recipient"
  /\ failures < MaxFailures
  /\ failures' = failures + 1
  /\ Answer(p, Response("transfer", 500, ""), "rb_rollback")
  /\ UNCHANGED <<tables, budget, browser>>

\* db.run("UPDATE users SET balance=? WHERE username=?", [user.balance, username])
RbRollback(p) ==
  /\ pc[p] = "rb_rollback"
  /\ UpdateBalance(req[p].username, loc[p].balance)
  /\ RbRan(p, "done")
  /\ UNCHANGED <<password, transactions, esusu_groups, esusu_members,
                 esusu_contributions>>

RbInsertSent(p) ==
  /\ pc[p] = "rb_insert_sent"
  /\ InsertTransaction(
        TransactionRow(req[p].username, "Transfer", req[p].amount, req[p].recipient))
  /\ RbRan(p, "rb_insert_received")
  /\ UNCHANGED <<password, balance, esusu_groups, esusu_members, esusu_contributions>>

RbInsertReceived(p) ==
  /\ pc[p] = "rb_insert_received"
  /\ InsertTransaction(
        TransactionRow(req[p].recipient, "Received", req[p].amount, req[p].username))
  /\ RbRan(p, "done")
  /\ UNCHANGED <<password, balance, esusu_groups, esusu_members, esusu_contributions>>

InitRollback ==
  /\ InitTables
  /\ budget = MaxRollbackRequests

NextRollback ==
  \E p \in Procs :
    \/ RbAction(p)
    \/ RbAirtimeUpdate(p)
    \/ RbAirtimeInsert(p)
    \/ RbSelectRecipient(p)
    \/ RbUpdateSender(p)
    \/ RbUpdateSenderFails(p)
    \/ RbUpdateRecipient(p)
    \/ RbUpdateRecipientFails(p)
    \/ RbRollback(p)
    \/ RbInsertSent(p)
    \/ RbInsertReceived(p)

SpecRollback == InitRollback /\ [][NextRollback]_vars

\* Signup with the one debit path that needs no parsing, so that balances move
NextSignup ==
  \E p \in Procs :
    \/ Signup(p)
    \/ PayBill(p)
    \/ PayBillUpdate(p)
    \/ PayBillInsert(p)
    \/ QueryFails(p)
    \/ \E route \in {"signup", "pay-bill"} : FirstQueryFails(p, route)

SpecSignup == InitSignup /\ [][NextSignup]_vars

\* No handler writes esusu_groups.status; the terminal state is set by hand
\* (UPDATE esusu_groups SET status='closed'), here while the server is idle, so
\* every request that meets a closed group was accepted after the closing.
CloseGroup ==
  /\ \A p \in Procs : pc[p] = "done"
  /\ \E g \in DOMAIN esusu_groups :
       /\ esusu_groups[g].status = "active"
       /\ esusu_groups' = [esusu_groups EXCEPT ![g].status = "closed"]
  /\ UNCHANGED <<balance, password, transactions, esusu_members,
                 esusu_contributions, pc, req, loc, response, budget, browser, failures>>

NextClosed == NextEsusu \/ CloseGroup

SpecClosed == InitClosed /\ [][NextClosed]_vars

SpecEsusu == InitEsusu /\ [][NextEsusu]_vars

\* --------------------------------------------------------- src/src/App.jsx
\* The chat page.  It talks to the generative-language API and to Firestore,
\* not to the server above, so its steps leave the server's state alone.  An
\* async function is a call c of Calls; each `await` ends one atomic step.
Retries == 3                   \* fetchWithRetry(url, options, retries = 3)
MaxChatCalls == 3              \* messages sent in one behaviour of SpecChat

server == <<tables, pc, req, loc, response, budget, failures>>

\* What one fetch can come to: status 0 is a rejected fetch (no response);
\* body tells whether the response body parses as JSON.
FetchOutcomes ==
  {[status |-> 0, body |-> "none"]} \cup
  {[status |-> s, body |-> b] : s \in {200, 400, 403, 500}, b \in {"json", "text"}}

\* The outcomes SpecChat draws: a parsed answer or a rejected fetch
ChatOutcomes == {[status |-> 200, body |-> "json"], [status |-> 0, body |-> "none"]}

\* response.ok
Ok(o) == o.status >= 200 /\ o.status <= 299

\* The error the try block of fetchWithRetry throws on outcome o
Thrown(o) ==
  IF o.status = 0 THEN <<"TypeError", 0>>
  ELSE IF Ok(o) THEN <<"SyntaxError", o.status>>
  ELSE <<"HTTP error! status:", o.status>>

\* Math.pow(2, i) * 1000 with a base of 1: every delay is one second
BackoffDelayConstant(i) == 1000

\* const delay = Math.pow(2, i) * 1000
BackoffDelay(i) == (2 ^ i) * 1000

\* if (i === retries - 1): the attempt that failed was the last one
LastAttempt(i) == i = Retries - 1

SetCall(c, call) == browser' = [browser EXCEPT !.calls[c] = call]

\* fetchWithRetry(apiUrl, {...}) is entered: let i = 0
CallFetchWithRetry(c) ==
  /\ browser.calls[c].pc = "idle"
  /\ SetCall(c, [NoCall EXCEPT !.pc = "fetch"])
  /\ UNCHANGED server

\* One pass of the loop body through `await fetch` and the response checks:
\* an ok response with a JSON body is returned parsed; everything else lands
\* in the catch, which rethrows on the last attempt and backs off otherwise.
FetchAttempt(c, o) ==
  LET call == browser.calls[c]
      seen == [call EXCEPT !.log = Append(@, o)]
  IN /\ call.pc = "fetch"
     /\ UNCHANGED server
     /\ IF Ok(o) /\ o.body = "json"
          THEN SetCall(c, [seen EXCEPT !.pc = "fetched",
                  !.result = [kind |-> "returned", value |-> <<"body", o.status>>]])
        ELSE IF LastAttempt(call.i)
          THEN SetCall(c, [seen EXCEPT !.pc = "fetched",
                  !.result = [kind |-> "threw", value |-> Thrown(o)]])
        ELSE SetCall(c, [seen EXCEPT !.pc = "backoff"])

\* await new Promise((resolve) => setTimeout(resolve, delay)); then i++ and
\* the loop test: past the last index the function falls off its end.
Backoff(c) ==
  LET call == browser.calls[c]
      slept == [call EXCEPT !.waited = Append(@, BackoffDelay(call.i)),
                            !.i = @ + 1]
  IN /\ call.pc = "backoff"
     /\ UNCHANGED server
     /\ IF call.i + 1 < Retries
          THEN SetCall(c, [slept EXCEPT !.pc = "fetch"])
        ELSE SetCall(c, [slept EXCEPT !.pc = "fetched",
                !.result = [kind |-> "returned", value |-> <<"undefined", 0>>]])

\* One call of fetchWithRetry with the default retries, from entry to result
InitRetry ==
  /\ InitTables
  /\ budget = 0

NextRetry ==
  \/ CallFetchWithRetry("c1")
  \/ \E o \in FetchOutcomes : FetchAttempt("c1", o)
  \/ Backoff("c1")

SpecRetry == InitRetry /\ [][NextRetry]_vars

\* ------------------------------------------------------ src/unnamed/part_004
Retries004 == 3                \* fetchWithRetry(url, options, retries = 3)

\* The error the try block throws on outcome o: the body of a response that
\* is not ok is parsed before its status is looked at.
Thrown004(o) ==
  IF o.status = 0 THEN <<"TypeError", 0>>
  ELSE IF o.body # "json" THEN <<"SyntaxError", o.status>>
  ELSE IF o.status = 403 THEN <<"HTTP error! status: 403 (Authentication Failed)", 403>>
  ELSE <<"HTTP error! status:", o.status>>

\* One pass of the loop body: an ok response is returned as it is; every
\* throw of the try block, the one for status 403 included, lands in the
\* catch of the same pass, which gives up on the last attempt only.
Fetch004Attempt(c, o) ==
  LET call == browser.calls[c]
      seen == [call EXCEPT !.log = Append(@, o)]
  IN /\ call.pc = "fetch"
     /\ UNCHANGED server
     /\ IF Ok(o)
          THEN SetCall(c, [seen EXCEPT !.pc = "fetched",
                  !.result = [kind |-> "returned", value |-> <<"response", o.status>>]])
        ELSE IF call.i = Retries004 - 1
          THEN SetCall(c, [seen EXCEPT !.pc = "fetched",
                  !.result = [kind |-> "threw",
                     value |-> <<"All retries failed. Throwing final error.", 0>>]])
        ELSE SetCall(c, [seen EXCEPT !.pc = "backoff",
                !.result = [kind |-> "none", value |-> Thrown004(o)]])

\* await new Promise(resolve => setTimeout(resolve, delay)); then i++
Backoff004(c) ==
  LET call == browser.calls[c]
      slept == [call EXCEPT !.waited = Append(@, (2 ^ call.i) * 1000),
                            !.i = @ + 1]
  IN /\ call.pc = "backoff"
     /\ UNCHANGED server
     /\ IF call.i + 1 < Retries004
          THEN SetCall(c, [slept EXCEPT !.pc = "fetch"])
        ELSE SetCall(c, [slept EXCEPT !.pc = "fetched",
                !.result = [kind |-> "returned", value |-> <<"undefined", 0>>]])

NextRetry004 ==
  \/ CallFetchWithRetry("c1")
  \/ \E o \in FetchOutcomes : Fetch004Attempt("c1", o)
  \/ Backoff004("c1")

SpecRetry004 == InitRetry /\ [][NextRetry004]_vars

\* ---------------------------------------- src/src/App.jsx, handleSendMessage
\* The model's answer: its intent and the amount field of its details
Intents == {"transfer_funds", "buy_airtime", "check_balance", "none"}
DetailAmounts ==
  {[present |-> FALSE, value |-> 0]} \cup
  {[present |-> TRUE, value |-> v] :
     v \in {0 - 500 * Naira, 4, 60000 * Naira, 200000 * Naira}}

\* parseFloat(details.amount) || 0
ParseAmount(d) == IF d.present THEN d.value ELSE 0

\* parseFloat(x.toFixed(2)): x to the nearest hundredth of a naira
ToFixed2(x) ==
  IF x >= 0 THEN ((x + 5) \div 10) * 10 ELSE 0 - (((0 - x) + 5) \div 10) * 10

\* if (balance < amount)
LowFunds(bal, amount) == bal < amount

\* const newBalance = parseFloat((balance - amount).toFixed(2))
NewBalanceFixed(bal, amount) == ToFixed2(bal - amount)

\* What a render's handleSendMessage closes over
Closure == [isLoading |-> browser.isLoading, balance |-> browser.balance]

\* Async calls are interchangeable, so c2 is used only while c1 is busy
Free(c) ==
  /\ browser.calls[c].pc = "idle"
  /\ c = "c2" => browser.calls["c1"].pc # "idle"
  /\ browser.sends < MaxChatCalls

\* handleSendMessage up to its first await, on the page b: the guard on the
\* message and on the isLoading of the closure, then setIsLoading(true) and
\* the call of fetchWithRetry.
HandleSendMessage(b, c, closure, userMessage) ==
  IF userMessage = "" \/ closure.isLoading THEN b
  ELSE [b EXCEPT !.isLoading = TRUE, !.sends = @ + 1,
                 !.calls[c] = [NoCall EXCEPT !.pc = "fetch",
                                 !.isLoading = closure.isLoading,
                                 !.balance = closure.balance]]

\* finally { setIsLoading(false) }: the call is over
Finally(b, c) == [b EXCEPT !.isLoading = FALSE, !.calls[c] = NoCall]

\* Enter in the textarea or a click on Send, which the page offers while
\* neither isLoading nor isListening; the handler is the one of this render.
HandleKeyDown(c) ==
  /\ Free(c)
  /\ ~browser.isLoading /\ ~browser.isListening
  /\ \E input \in {"", "send 500 to Ada"} :
       browser' = HandleSendMessage(browser, c, Closure, input)
  /\ UNCHANGED server

\* A click on the microphone, which the page offers while not isLoading: the
\* recognition keeps the handleSendMessage of this render for its onresult.
StartSpeechRecognition ==
  /\ ~browser.isLoading
  /\ browser.recognition.phase = "none"
  /\ browser' = [browser EXCEPT !.recognition =
        [phase |-> "starting", isLoading |-> browser.isLoading,
         balance |-> browser.balance]]
  /\ UNCHANGED server

\* recognition.onstart: setIsListening(true)
RecognitionOnStart ==
  /\ browser.recognition.phase = "starting"
  /\ browser' = [browser EXCEPT !.recognition.phase = "listening",
                                !.isListening = TRUE]
  /\ UNCHANGED server

\* recognition.onresult: setIsListening(false); handleSendMessage(transcript)
RecognitionOnResult(c) ==
  /\ Free(c)
  /\ browser.recognition.phase = "listening"
  /\ browser' = HandleSendMessage(
        [browser EXCEPT !.isListening = FALSE, !.recognition = NoRecognition],
        c, [isLoading |-> browser.recognition.isLoading,
            balance |-> browser.recognition.balance], "transcript")
  /\ UNCHANGED server

\* recognition.onerror / onend without a result: setIsListening(false)
RecognitionOnEnd ==
  /\ browser.recognition.phase \in {"starting", "listening"}
  /\ browser' = [browser EXCEPT !.isListening = FALSE,
                                !.recognition = NoRecognition]
  /\ UNCHANGED server

\* fetchWithRetry has settled.  A throw goes to the catch and the finally.
\* Otherwise the answer carries an intent: a transfer or an airtime purchase
\* the closure's balance covers goes on to setDoc with the new balance, every
\* other answer goes on to the speech synthesis.
ProcessResult(c) ==
  LET call == browser.calls[c]
  IN /\ call.pc = "fetched"
     /\ UNCHANGED server
     /\ IF call.result.kind = "threw" THEN browser' = Finally(browser, c)
        ELSE \E intent \in Intents, d \in DetailAmounts :
               IF /\ intent \in {"transfer_funds", "buy_airtime"}
                  /\ ~LowFunds(call.balance, ParseAmount(d))
                 THEN SetCall(c, [call EXCEPT !.pc = "setDoc",
                         !.newBalance = NewBalanceFixed(call.balance, ParseAmount(d))])
               ELSE SetCall(c, [call EXCEPT !.pc = "tts"])

\* await setDoc(balanceDocRef, {currentBalance: newBalance, ...}): the write
\* lands and the snapshot listener sets the balance state, or it throws and
\* the catch and the finally run.
SetDoc(c) ==
  LET call == browser.calls[c]
  IN /\ call.pc = "setDoc"
     /\ UNCHANGED server
     /\ \E written \in BOOLEAN :
          IF written
            THEN browser' = [browser EXCEPT !.currentBalance = call.newBalance,
                                            !.balance = call.newBalance,
                                            !.calls[c].pc = "tts"]
          ELSE browser' = Finally(browser, c)

\* await handleTtsSynthesis(finalResponseText), which catches its own errors,
\* and the finally
TtsSynthesis(c) ==
  /\ browser.calls[c].pc = "tts"
  /\ browser' = Finally(browser, c)
  /\ UNCHANGED server

\* src/unnamed/part_004, the switch on the intent of the model's answer:
\* const amount = details?.amount || 0; a covered amount is taken off the
\* balance document.
Part004Switch ==
  /\ browser.sends < MaxChatCalls
  /\ UNCHANGED server
  /\ \E intent \in {"TRANSFER", "AIRTIME_PURCHASE", "BALANCE_CHECK"},
        d \in DetailAmounts :
       IF intent # "BALANCE_CHECK" /\ browser.account >= ParseAmount(d)
         THEN browser' = [browser EXCEPT !.sends = @ + 1,
                            !.account = browser.account - ParseAmount(d)]
       ELSE browser' = [browser EXCEPT !.sends = @ + 1]

InitChat ==
  /\ InitTables
  /\ budget = 0

NextChat ==
  \/ StartSpeechRecognition
  \/ RecognitionOnStart
  \/ RecognitionOnEnd
  \/ Part004Switch
  \/ \E c \in Calls :
       \/ HandleKeyDown(c)
       \/ RecognitionOnResult(c)
       \/ \E o \in ChatOutcomes : FetchAttempt(c, o)
       \/ Backoff(c)
       \/ ProcessResult(c)
       \/ SetDoc(c)
       \/ TtsSynthesis(c)

SpecChat == InitChat /\ [][NextChat]_vars

Quiescent == \A p \in Procs : pc[p] = "done"

\* ------------------------------------------------------- derived views
DebitTypes == {"Airtime", "Transfer", "Bill Payment", "Esusu Contribution"}

\* The transaction rows of u that record money leaving (resp. reaching) the account
DebitsOf(u) ==
  LET IsDebit(r) == r.username = u /\ r.type \in DebitTypes
  IN  SelectSeq(transactions, IsDebit)

ReceivedBy(u) ==
  LET IsCredit(r) == r.username = u /\ r.type = "Received"
  IN  SelectSeq(transactions, IsCredit)

Accepted == MaxRequests - budget

\* A group as the specification's data model admits it
WellFormed(g) ==
  /\ esusu_groups[g].total_members \in 3..12
  /\ esusu_groups[g].amount_per_person > 0

\* The memberships that POST /esusu/join inserted (not the creator's own)
Joined(g) == {i \in MembersOf(g) : esusu_members[i].username # esusu_groups[g].created_by}

\* ------------------------------------------------------- C1
\* C1: every account balance is >= 0 in every reachable state, for any sequence
\* and interleaving of airtime, transfer, pay-bill and esusu-contribute requests.
C1_BalanceNonNegative == \A u \in Users : balance[u] >= 0

\* Two debits of one account were both applied on stale reads: the logged debits
\* exceed what the account ever held.
C1_Witness == \E u \in Users : SumAmounts(DebitsOf(u)) > DefaultBalance

\* ------------------------------------------------------- C2
\* C2: concurrent joins by distinct users never give two memberships of one
\* group the same position.  Stated for well-formed groups and for the
\* memberships that joins inserted.
C2_UniquePositions ==
  \A g \in DOMAIN esusu_groups :
    WellFormed(g) =>
      \A i, j \in Joined(g) :
        esusu_members[i].username # esusu_members[j].username
          => esusu_members[i].position # esusu_members[j].position

\* ------------------------------------------------------- C3
\* C3: a group never has more members than its total_members and no position
\* exceeds total_members.  Stated for well-formed groups and counting each user
\* once, so that a violation rests on the capacity check alone.
C3_Capacity ==
  \A g \in DOMAIN esusu_groups :
    WellFormed(g) =>
      /\ Cardinality({esusu_members[i].username : i \in MembersOf(g)})
           <= esusu_groups[g].total_members
      /\ \A i \in MembersOf(g) :
           esusu_members[i].position <= esusu_groups[g].total_members

\* ------------------------------------------------------- C4
\* C4: no account holds two memberships in the same group.  Stated for users
\* other than the group's creator, whose membership POST /esusu/create inserts.
C4_SingleMembership ==
  \A g \in DOMAIN esusu_groups : \A u \in Users :
    (WellFormed(g) /\ u # esusu_groups[g].created_by)
      => Cardinality(MembershipsOf(g, u)) <= 1

\* ------------------------------------------------------- C5
\* C5: for every (group, account, cycle) at most one contribution row exists
\* after any sequence of contribute requests.  Stated for well-formed groups and
\* for the states in which no request is in flight.
C5_OneContributionPerCycle ==
  Quiescent =>
    \A i, j \in DOMAIN esusu_contributions :
      ( /\ i # j
        /\ WellFormed(esusu_contributions[i].group_id)
        /\ esusu_contributions[i].group_id = esusu_contributions[j].group_id
        /\ esusu_contributions[i].username = esusu_contributions[j].username )
      => esusu_contributions[i].cycle_number # esusu_contributions[j].cycle_number

\* ------------------------------------------------------- C6
\* C6: contribute is all-or-nothing under a storage failure: in no quiescent
\* state is an account debited without both a contribution row and an
\* 'Esusu Contribution' transaction row.  Under SpecEsusu, where contribute is
\* the only handler that writes a balance.
C6_AllOrNothing ==
  Quiescent =>
    \A u \in Users :
      balance[u] < DefaultBalance =>
        /\ \E i \in DOMAIN esusu_contributions : esusu_contributions[i].username = u
        /\ \E i \in DOMAIN transactions :
             /\ transactions[i].username = u
             /\ transactions[i].type = "Esusu Contribution"

\* ------------------------------------------------------- C7
\* C7: when the only two requests of a run are airtime purchases on the same
\* account and both report success (each logged its row, no query failed), the
\* final balance is the initial balance minus the sum of both amounts.
C7_NoLostUpdate ==
  ( /\ Quiescent
    /\ Accepted = 2
    /\ failures = 0
    /\ Len(transactions) = 2
    /\ \A i \in DOMAIN transactions : transactions[i].type = "Airtime"
    /\ transactions[1].username = transactions[2].username )
  => balance[transactions[1].username]
       = DefaultBalance - transactions[1].amount - transactions[2].amount

\* ------------------------------------------------------- C8
\* C8: reconciliation: in every quiescent state reached without a storage
\* failure, the debit rows of an account sum to what has left its balance.  For
\* an account that never received money that is the starting balance minus the
\* balance it holds.
C8_Reconciliation ==
  (Quiescent /\ failures = 0) =>
    \A u \in Users :
      ReceivedBy(u) = <<>> =>
        SumAmounts(DebitsOf(u)) = DefaultBalance - balance[u]

\* ------------------------------------------------------- C10
\* C10: every stored group has total_members in 3..12.
C10_TotalMembersRange ==
  \A g \in DOMAIN esusu_groups : esusu_groups[g].total_members \in 3..12

\* ------------------------------------------------------- C11
\* C11: in every quiescent state every group has exactly one membership at
\* position 1 and it belongs to the group's creator (created_by), also after a
\* create whose founder-membership insert failed and after a join that ran
\* between the two inserts of a create.  Stated for well-formed groups.
FirstPosition(g) == {i \in MembersOf(g) : esusu_members[i].position = 1}

C11_FounderAtPositionOne ==
  Quiescent =>
    \A g \in DOMAIN esusu_groups :
      WellFormed(g) =>
      /\ Cardinality(FirstPosition(g)) = 1
      /\ \A i \in FirstPosition(g) :
           esusu_members[i].username = esusu_groups[g].created_by

\* ------------------------------------------------------- C12
\* C12: a create whose group name already exists fails (400) and leaves every
\* table, so the existing group, its memberships and its contributions,
\* unchanged; and group names are unique in every reachable state.
UniqueGroupNames ==
  \A i, j \in DOMAIN esusu_groups :
    esusu_groups[i].group_name = esusu_groups[j].group_name => i = j

C12_DuplicateNameRejected ==
  [][ /\ \A p \in Procs :
          (EsusuCreate(p) /\ \A name \in GroupNames : GroupsNamed(name) # {})
            => /\ response' = Response("create", 400, "")
               /\ UNCHANGED tables
      /\ UniqueGroupNames' ]_vars

\* A create was answered 400 while the group, with a contribution, existed.
C12_Witness ==
  /\ Quiescent
  /\ failures = 0
  /\ response = Response("create", 400, "")
  /\ esusu_groups # <<>>
  /\ esusu_contributions # <<>>

\* ------------------------------------------------------- C13
\* C13: a contribute by a user who is not a member of the group, or whose
\* balance (as the handler read it) is less than the group's amount_per_person,
\* is answered 400 and leaves every table, so the balance, the contributions
\* and the transaction log, unchanged.  The step is the one that follows the
\* membership SELECT, taken without a storage failure.
Unfit(p) ==
  \/ MembershipsOf(loc[p].group, req[p].username) = {}
  \/ loc[p].balance < esusu_groups[loc[p].group].amount_per_person

C13_UnfitContributeRejected ==
  [][ \A p \in Procs :
        ( /\ pc[p] = "contribute_select_member"
          /\ pc'[p] # pc[p]
          /\ failures' = failures
          /\ Unfit(p) )
        => /\ pc'[p] = "done"
           /\ response'.route = "contribute"
           /\ response'.status = 400
           /\ UNCHANGED tables ]_vars

\* A rejection was answered: a non-member's contribute, or a member's
\* contribute after two contributions left 2000 of the 4000 needed (each
\* disjunct is reachable).
C13_Witness ==
  /\ Quiescent
  /\ failures = 0
  /\ \/ /\ response = Response("contribute", 400, NotMemberError)
        /\ esusu_contributions = <<>>
     \/ /\ response = Response("contribute", 400, InsufficientBalanceError)
        /\ \E u \in Payers : balance[u] = DefaultBalance - 2 * 4000

\* ------------------------------------------------------- C14
\* C14: every debit path (airtime, transfer, pay-bill, esusu contribute)
\* rejects an amount <= 0, so every debit the log records has a positive amount
\* and no successful debit raises the payer's balance.
C14_DebitsPositive ==
  \A i \in DOMAIN transactions :
    transactions[i].type \in DebitTypes => transactions[i].amount > 0

\* ------------------------------------------------------- C15
\* C15: when a storage step of a transfer throws after the sender's balance
\* UPDATE, the partial mutation is rolled back before the 500 response: no
\* quiescent state has the sender debited without the recipient credited.
\* Stated for a run whose only request is the transfer answered 500.
C15_TransferRolledBack ==
  ( /\ Quiescent
    /\ Accepted = 1
    /\ response = Response("transfer", 500, "") )
  => ( (\E u \in Users : balance[u] < DefaultBalance)
         => (\E v \in Users : balance[v] > DefaultBalance) )

\* ------------------------------------------------------- C16
\* C16: a group whose status is 'closed' rejects every further join and
\* contribute: no step changes its memberships, its contributions or the
\* balances of its members.  Stated for well-formed groups.
ContributionsTo(g) ==
  {i \in DOMAIN esusu_contributions : esusu_contributions[i].group_id = g}

C16_ClosedGroupFrozen ==
  [][ \A g \in DOMAIN esusu_groups :
        (WellFormed(g) /\ esusu_groups[g].status = "closed")
        => /\ MembersOf(g)' = MembersOf(g)
           /\ ContributionsTo(g)' = ContributionsTo(g)
           /\ \A i \in MembersOf(g) :
                balance'[esusu_members[i].username] = balance[esusu_members[i].username]
    ]_vars

\* ------------------------------------------------------- C17
\* C17: the transaction log is append-only: every step of every handler keeps
\* the existing rows as they are, in place, and at most adds rows after them.
C17_AppendOnly ==
  [][ /\ Len(transactions') >= Len(transactions)
      /\ SubSeq(transactions', 1, Len(transactions)) = transactions ]_vars

\* Two requests have logged three rows or more (a transfer logs two).
C17_Witness == Quiescent /\ Len(transactions) >= 3

\* ------------------------------------------------------- C18
\* C18: GET /history/:username returns only that user's rows, newest first, at
\* most 20 of them and exactly the 20 newest when more exist, and changes no
\* balance, transaction, group, membership or contribution.
RowsOf(u) == {i \in DOMAIN transactions : transactions[i].username = u}

HistoryCorrect(u, rows) ==
  /\ \A k \in DOMAIN rows : rows[k] \in RowsOf(u)
  /\ \A k, l \in DOMAIN rows : k < l => rows[k] > rows[l]
  /\ Len(rows) <= 20
  /\ Len(rows) = IF Cardinality(RowsOf(u)) > 20 THEN 20 ELSE Cardinality(RowsOf(u))
  /\ \A i \in RowsOf(u) :
       (\A k \in DOMAIN rows : rows[k] # i) => \A k \in DOMAIN rows : i < rows[k]

C18_HistoryNewestTwenty ==
  [][ \A p \in Procs : \A u \in Payers \cup {NoUser} :
        GetHistoryOf(p, u)
          => /\ response'.status = 200
             /\ HistoryCorrect(u, response'.rows)
             /\ UNCHANGED tables ]_vars

\* A history of 20 rows was returned that leaves older rows of the user out
\* and skips a row of another user lying among the newest.
C18_Witness ==
  /\ response.route = "history"
  /\ Len(response.rows) = 20
  /\ Cardinality(RowsOf("alice")) > 20
  /\ response.rows[1] - response.rows[20] > 19

\* ------------------------------------------------------- C19
\* C19: total_members (and amount_per_person) of an existing group never
\* change: every step keeps every existing group row's two fields, whatever
\* sequence of create, join and contribute requests runs.
C19_GroupTermsFixed ==
  [][ \A g \in DOMAIN esusu_groups :
        /\ g \in DOMAIN esusu_groups'
        /\ esusu_groups'[g].total_members = esusu_groups[g].total_members
        /\ esusu_groups'[g].amount_per_person = esusu_groups[g].amount_per_person
    ]_vars

\* A group has been joined and contributed to since its creation.
C19_Witness ==
  /\ Quiescent
  /\ \E g \in DOMAIN esusu_groups :
       /\ Joined(g) # {}
       /\ ContributionsTo(g) # {}
       /\ esusu_groups[g].total_members = 3

\* ------------------------------------------------------- C20
\* C20: accounts are created only by signup, with the non-negative starting
\* balance 10000; they are never deleted; and a signup with a username already
\* in use fails (400) and leaves that account's balance and password unchanged.
C20_SignupOnly ==
  [][ /\ DOMAIN balance \subseteq DOMAIN balance'
      /\ DOMAIN password' = DOMAIN balance'
      /\ \A u \in DOMAIN balance' \ DOMAIN balance :
           /\ \E p \in Procs, plain \in SignupPasswords : SignupOf(p, u, plain)
           /\ balance'[u] = 10000
           /\ balance'[u] >= 0
      /\ \A p \in Procs, plain \in SignupPasswords : \A u \in DOMAIN balance :
           SignupOf(p, u, plain)
             => /\ response'.status = 400
                /\ balance'[u] = balance[u]
                /\ password'[u] = password[u]
    ]_vars

\* The only account has spent or gained money, and a later signup under its
\* name was answered 'Username already exists'.
C20_Witness ==
  /\ Quiescent
  /\ failures = 0
  /\ response = Response("signup", 400, UsernameExistsError)
  /\ Cardinality(DOMAIN balance) = 1
  /\ \E u \in DOMAIN balance : balance[u] # DefaultBalance

\* ------------------------------------------------------- C26
\* C26: a successful transfer conserves money: the sum of all balances is the
\* same after it as before, also when the recipient is the sender.  Stated for
\* a run whose only request is a transfer answered 200 with no query failing.
RECURSIVE SumBalances(_)
SumBalances(S) ==
  IF S = {} THEN 0
  ELSE LET u == CHOOSE x \in S : TRUE IN balance[u] + SumBalances(S \ {u})

C26_TransferConserves ==
  ( /\ Quiescent
    /\ Accepted = 1
    /\ failures = 0
    /\ response = Response("transfer", 200, "") )
  => SumBalances(Users) = Cardinality(Users) * DefaultBalance

\* ------------------------------------------------------- C28
\* C28: every contribution row refers to a member of its group and carries the
\* group's amount_per_person, in every reachable state.
C28_ContributionOfMember ==
  \A i \in DOMAIN esusu_contributions :
    LET c == esusu_contributions[i] IN
      /\ c.group_id \in DOMAIN esusu_groups
      /\ MembershipsOf(c.group_id, c.username) # {}
      /\ c.amount = esusu_groups[c.group_id].amount_per_person

\* A user who joined (not the creator) has contributed.
C28_Witness ==
  \E i \in DOMAIN esusu_contributions :
    esusu_contributions[i].username
      # esusu_groups[esusu_contributions[i].group_id].created_by

\* ------------------------------------------------------- C21
\* C21: no operation blocks indefinitely: assuming every query eventually
\* returns or throws, every request in flight is eventually answered, and a
\* handler's next step never waits on another request: it can be taken
\* whenever the handler is in flight.
C21_EveryRequestAnswered ==
  /\ [](\A p \in Procs : pc[p] # "done" => ENABLED Proceed(p))
  /\ \A p \in Procs : (pc[p] # "done") ~> (pc[p] = "done")

\* A join and a contribute are in flight at once, each before its write.
C21_Witness ==
  /\ pc["p1"] = "contribute_update"
  /\ pc["p2"] = "join_insert"

\* ------------------------------------------------------- C22
\* C22: in the SQLite variant (part_003) no sequence or interleaving of
\* POST /transfer and POST /buy_airtime leaves an account balance negative.
\* Stated for the states in which every queued statement has run.
C22_SqliteNonNegative == Quiescent => \A u \in DOMAIN balance : ~(balance[u] < 0)

\* ------------------------------------------------------- C27
\* C27: in part_003 every POST /transfer leaves the sum of all balances
\* unchanged: the sender is debited only if an existing recipient is credited
\* the same amount.  Stated for a run whose only request is a transfer
\* answered 200, once its statements have run.
C27_SqliteTransferConserves ==
  ( /\ Quiescent
    /\ budget = MaxSqliteRequests - 1
    /\ response = Response("transfer", 200, "") )
  => SumBalances(DOMAIN balance) = Cardinality(DOMAIN balance) * DefaultBalance

\* ------------------------------------------------------- C23
\* C23: in part_001, when the recipient's UPDATE of a transfer fails, the
\* sender's balance is rolled back to what it would be had the transfer never
\* run, also when another debit of the sender committed between the transfer's
\* read and its rollback.  Stated for a run of two requests, an airtime
\* purchase that was logged and a transfer whose UPDATE failed: the buyer
\* holds the starting balance less the airtime.
C23_RollbackKeepsOtherDebit ==
  ( /\ Quiescent
    /\ budget = MaxRollbackRequests - 2
    /\ failures = 1
    /\ Len(transactions) = 1
    /\ transactions[1].type = "Airtime" )
  => balance[transactions[1].username] = DefaultBalance - transactions[1].amount

\* ------------------------------------------------------- C24
\* The fetch outcome is a parsed answer
Parsed(o) == Ok(o) /\ o.body = "json"

\* fetchWithRetry made at most 3 attempts, and if it has returned, its last
\* attempt is the first one that succeeded and the parsed body is its value
AttemptsAndReturn(call) ==
  /\ Len(call.log) <= Retries
  /\ call.result.kind = "returned" =>
       /\ Parsed(call.log[Len(call.log)])
       /\ \A k \in 1..(Len(call.log) - 1) : ~Parsed(call.log[k])
       /\ call.result.value = <<"body", call.log[Len(call.log)].status>>

C25_FailsAtOnceOn403 ==
  LET call == browser.calls["c1"]
  IN \A k \in 1..Len(call.log) :
       call.log[k].status = 403 =>
         /\ Len(call.log) = k
         /\ Len(call.waited) = k - 1

\* ------------------------------------------------------- C29
\* C29: in the chat page (App.jsx and part_004) a transfer or airtime intent
\* returned by the model never increases the stored balance and never makes
\* it negative: every step that stores a balance stores one between 0 and the
\* balance stored before.
C29_BalanceWithinBounds ==
  [][ /\ browser'.currentBalance # browser.currentBalance =>
           /\ 0 <= browser'.currentBalance
           /\ browser'.currentBalance <= browser.currentBalance
      /\ browser'.account # browser.account =>
           /\ 0 <= browser'.account
           /\ browser'.account <= browser.account ]_vars

\* ------------------------------------------------------- C30
\* C30: in App.jsx a call of handleSendMessage made while isLoading is true
\* returns without sending a request or changing the balance: in no step
\* taken while isLoading holds does a call leave its idle state.  (The other
\* half of the claim, that every call which sets isLoading sets it back, is
\* not what fails.)
C30_NoCallWhileLoading ==
  [][ \A c \in Calls :
        (browser.isLoading /\ browser.calls[c].pc = "idle")
          => browser'.calls[c].pc = "idle" ]_vars

====
